---- MODULE Spec2Model ----
(***************************************************************************)
(* SpotifyAIDataAgent (src/API_Agent_2.py): token lifecycle, adaptive      *)
(* delay and the collection loop of run().                                 *)
(*                                                                         *)
(* Units: the clock `now`, token_expiry and expires_in are whole seconds;  *)
(* delay and slept are milliseconds (1.0 s = 1000), and delay * 0.9 is     *)
(* computed in that fixed point, rounded down.  Python's None is the       *)
(* integer -1, which no timestamp, token or delay of the model takes.      *)
(* run() is one sequential flow; it is cut into steps at its blocking      *)
(* calls (the token POST, the search/detail GET), and the time that        *)
(* latencies and sleeps take is the separate step Tick.                    *)
(***************************************************************************)
EXTENDS Integers, Sequences, FiniteSets, TLC

\* ---------------------------------------------------------------- bounds
MaxArtists == 3
MaxTime == 80
ElapseStep == 40

\* ------------------------------------------------------ program constants
None == -1
DefaultMinDelay == 1000
CeilingDelay == 10000
TokenMargin == 60

\* ----------------------------------------------------------- input sets
\* collection_settings.min_delay_seconds as configured (None: not configured)
MinDelayChoices == {None, 1000, 3000, 20000}
\* expires_in as reported by the credential exchange
ExpiresInChoices == {30, 60, 3600}
\* access_token strings the exchange may hand out
TokenValues == {1, 2}
\* jitter = random.uniform(0.8, 1.2), in thousandths
JitterChoices == {800, 1000, 1200}

\* The responses of POST /api/token: the request raises, the status is not
\* 2xx, or a JSON body in which either key may be missing (None).
TokenResponses ==
    [status : {"network_error", "http_error"}, access_token : {None}, expires_in : {None}]
    \cup [status : {"ok"}, access_token : TokenValues \cup {None},
          expires_in : ExpiresInChoices \cup {None}]

\* The outcomes of GET /v1/search and GET /v1/artists/{id}.
SearchOutcomes == {"found", "no_items", "http_error", "network_error", "bad_json"}
DetailOutcomes == {"ok", "empty_body", "http_error", "network_error", "bad_json"}
\* An artist body: whether "name" is non-empty, how many "genres" it lists, and
\* whether "external_urls" and "followers" are objects or absent (nested) and
\* not some other value such as null.
DetailBodies == [name : BOOLEAN, genres : 0..1, nested : BOOLEAN]
NoDetails == [name |-> FALSE, genres |-> 0, nested |-> TRUE]

VARIABLES
    config,             \* the loaded config.json; client_id and client_secret say
                        \* whether config.json or the environment gives a non-empty one
    token,              \* self.token
    token_expiry,       \* self.token_expiry
    stats,              \* self.stats
    delay,              \* self.delay
    collected_artists,  \* self.collected_artists (positions in artists_to_search)
    now,                \* datetime.now().timestamp()
    pc,                 \* position of the flow of control
    call,               \* the method run() is inside: search_artist / get_artist_details
    idx,                \* position of artist_name in artists_to_search
    artist_details,     \* run()'s local artist_details
    raised,             \* the exception that left run(), "none" if none
    refreshes,          \* token exchanges performed by the current ensure_token_valid
    escalations,        \* calls of adapt_delay so far
    paces,              \* calls of respectful_delay so far
    slept,              \* argument of the latest time.sleep, ms
    outcome,            \* how the latest search/detail request ended
    clean               \* every request so far was answered with a usable record

vars == <<config, token, token_expiry, stats, delay, collected_artists, now, pc,
          call, idx, artist_details, raised, refreshes, escalations, paces, slept,
          outcome, clean>>

\* ---------------------------------------------------------------- helpers
Min(a, b) == IF a <= b THEN a ELSE b
Max(a, b) == IF a >= b THEN a ELSE b

\* config.get("collection_settings", {}).get("min_delay_seconds", 1.0)
MinDelay(cfg) == IF cfg.min_delay_seconds = None THEN DefaultMinDelay ELSE cfg.min_delay_seconds

\* adapt_delay: min(self.delay * 2, 10)
Doubled(d) == Min(d * 2, CeilingDelay)

\* self.delay * 0.9
Decay(d) == (d * 9) \div 10

\* respectful_delay, lines 154-158: the decayed delay, or the KeyError of
\* config["collection_settings"]["min_delay_seconds"] when it is not configured.
RespectfulDecay(d, cfg) ==
    IF d > MinDelay(cfg)
    THEN IF cfg.min_delay_seconds = None
         THEN [delay |-> d, raised |-> "KeyError"]
         ELSE [delay |-> Max(Decay(d), cfg.min_delay_seconds), raised |-> "none"]
    ELSE [delay |-> d, raised |-> "none"]

\* Variant: the safety margin is left out of the check.
TokenStaleNoMargin(tok, exp, t) == tok = None \/ t > exp

\* Variant: the token is refreshed already at the edge of the margin.
TokenStaleAtEdge(tok, exp, t) == tok = None \/ t >= exp - TokenMargin

\* ensure_token_valid's condition, for a token whose expiry is set
TokenStale(tok, exp, t) == tok = None \/ t > exp - TokenMargin

\* Variant: a failed exchange drops the stored token.
AccessTokenResultClearing(tok, exp, t, resp) ==
    IF resp.status = "network_error"
    THEN [token |-> None, token_expiry |-> None, raised |-> "ConnectionError"]
    ELSE IF resp.status = "http_error"
    THEN [token |-> None, token_expiry |-> None, raised |-> "HTTPError"]
    ELSE IF resp.access_token = None \/ resp.expires_in = None
    THEN [token |-> None, token_expiry |-> None, raised |-> "KeyError"]
    ELSE [token |-> resp.access_token, token_expiry |-> t + resp.expires_in,
          raised |-> "none"]

\* get_access_token, lines 76-85: the fields after the response resp at time t
AccessTokenResult(tok, exp, t, resp) ==
    IF resp.status = "network_error"
    THEN [token |-> tok, token_expiry |-> exp, raised |-> "ConnectionError"]
    ELSE IF resp.status = "http_error"
    THEN [token |-> tok, token_expiry |-> exp, raised |-> "HTTPError"]
    ELSE IF resp.access_token = None
    THEN [token |-> tok, token_expiry |-> exp, raised |-> "KeyError"]
    ELSE IF resp.expires_in = None
    THEN [token |-> resp.access_token, token_expiry |-> exp, raised |-> "KeyError"]
    ELSE [token |-> resp.access_token, token_expiry |-> t + resp.expires_in,
          raised |-> "none"]

\* Variant: a search that found the artist is not counted as successful.
SearchStatsFoundUncounted(st, out) ==
    CASE out = "found" ->
           [st EXCEPT !.total_requests = @ + 1]
      [] out \in {"no_items", "bad_json"} ->
           [st EXCEPT !.total_requests = @ + 1, !.successful_requests = @ + 1,
                      !.failed_requests = @ + 1]
      [] out = "http_error" ->
           [st EXCEPT !.total_requests = @ + 1, !.failed_requests = @ + 1]
      [] out = "network_error" ->
           [st EXCEPT !.failed_requests = @ + 1]

\* search_artist, lines 97-116: the counters after the outcome
SearchStats(st, out) ==
    CASE out = "found" ->
           [st EXCEPT !.total_requests = @ + 1, !.successful_requests = @ + 1]
      [] out = "no_items" ->
           [st EXCEPT !.total_requests = @ + 1, !.successful_requests = @ + 1,
                      !.failed_requests = @ + 1]
      [] out = "bad_json" ->
           [st EXCEPT !.total_requests = @ + 1, !.successful_requests = @ + 1,
                      !.failed_requests = @ + 1]
      [] out = "http_error" ->
           [st EXCEPT !.total_requests = @ + 1, !.failed_requests = @ + 1]
      [] out = "network_error" ->
           [st EXCEPT !.failed_requests = @ + 1]

\* Variant: the empty result is handled like an error.
SearchRaisesAlsoEmpty(out) == out \in {"http_error", "network_error", "bad_json", "no_items"}

\* search_artist: the outcomes handled by the except clause (adapt_delay is called)
SearchRaises(out) == out \in {"http_error", "network_error", "bad_json"}

\* Variant: a fetched artist is not counted as a successful request.
DetailStatsOkUncounted(st, out) ==
    CASE out \in {"ok", "empty_body"} ->
           [st EXCEPT !.total_requests = @ + 1]
      [] out = "bad_json" ->
           [st EXCEPT !.total_requests = @ + 1, !.successful_requests = @ + 1,
                      !.failed_requests = @ + 1]
      [] out = "http_error" ->
           [st EXCEPT !.total_requests = @ + 1, !.failed_requests = @ + 1]
      [] out = "network_error" ->
           [st EXCEPT !.failed_requests = @ + 1]

\* get_artist_details, lines 123-133: the counters after the outcome
DetailStats(st, out) ==
    CASE out \in {"ok", "empty_body"} ->
           [st EXCEPT !.total_requests = @ + 1, !.successful_requests = @ + 1]
      [] out = "bad_json" ->
           [st EXCEPT !.total_requests = @ + 1, !.successful_requests = @ + 1,
                      !.failed_requests = @ + 1]
      [] out = "http_error" ->
           [st EXCEPT !.total_requests = @ + 1, !.failed_requests = @ + 1]
      [] out = "network_error" ->
           [st EXCEPT !.failed_requests = @ + 1]

\* get_artist_details: the outcomes handled by the except clause
DetailRaises(out) == out \in {"http_error", "network_error", "bad_json"}

\* assess_data_quality
AssessDataQuality(d) == d.name /\ d.genres > 0

\* Variant: __init__ raises only when both credentials are missing.
CredentialsMissingBoth(cfg) == ~cfg.client_id /\ ~cfg.client_secret

\* __init__, line 44: not self.client_id or not self.client_secret
CredentialsMissing(cfg) == ~cfg.client_id \/ ~cfg.client_secret

\* ------------------------------------------------------------------- Init
\* The state after SpotifyAIDataAgent(): __init__ raises when a credential is
\* missing (pc = "config_error"), else the agent is constructed.
Init ==
    /\ config \in [min_delay_seconds : MinDelayChoices,
                   artists_to_search : 0..MaxArtists,
                   client_id : BOOLEAN,
                   client_secret : BOOLEAN]
    /\ token = None
    /\ token_expiry = None
    /\ stats = [total_requests |-> 0, successful_requests |-> 0,
                failed_requests |-> 0, quality_passed |-> 0]
    /\ delay = MinDelay(config)
    /\ collected_artists = <<>>
    /\ now = 0
    /\ pc = IF CredentialsMissing(config) THEN "config_error" ELSE "constructed"
    /\ call = "none"
    /\ idx = 0
    /\ artist_details = NoDetails
    /\ raised = IF CredentialsMissing(config) THEN "ValueError" ELSE "none"
    /\ refreshes = 0
    /\ escalations = 0
    /\ paces = 0
    /\ slept = 0
    /\ outcome = "none"
    /\ clean = TRUE

\* ---------------------------------------------------------------- actions
\* The for loop of run() takes the next artist_name, or ends.  The locals of
\* the finished iteration are dead: artist_details is rebound before it is read.
NextEntity ==
    IF idx < config.artists_to_search
    THEN /\ idx' = idx + 1
         /\ pc' = "ensure"
         /\ call' = "search_artist"
         /\ refreshes' = 0
         /\ artist_details' = NoDetails
    ELSE /\ idx' = idx
         /\ pc' = "finish"
         /\ call' = "none"
         /\ refreshes' = refreshes
         /\ artist_details' = NoDetails

\* run(), lines 161-167
RunStart ==
    /\ pc = "constructed"
    /\ NextEntity
    /\ UNCHANGED <<config, token, token_expiry, stats, delay, collected_artists, now,
                   raised, escalations, paces, slept, outcome, clean>>

\* ensure_token_valid, line 88: the check
EnsureTokenValid ==
    /\ pc = "ensure"
    /\ IF token # None /\ token_expiry = None
       THEN pc' = "raised" /\ raised' = "TypeError"
       ELSE IF TokenStale(token, token_expiry, now)
       THEN pc' = "post" /\ raised' = raised
       ELSE pc' = "get" /\ raised' = raised
    /\ UNCHANGED <<config, token, token_expiry, stats, delay, collected_artists, now,
                   call, idx, artist_details, refreshes, escalations, paces, slept, outcome, clean>>

\* Variant: run() catches the failed exchange and goes on with the next artist.
RefreshReturnsSwallowed(r) ==
    /\ raised' = "none"
    /\ IF r.raised = "none"
       THEN pc' = "get" /\ UNCHANGED <<call, idx, artist_details>>
       ELSE IF idx < config.artists_to_search
       THEN pc' = "ensure" /\ idx' = idx + 1 /\ call' = "search_artist"
            /\ artist_details' = NoDetails
       ELSE pc' = "finish" /\ idx' = idx /\ call' = "none"
            /\ artist_details' = NoDetails

\* get_access_token returns, or re-raises (line 85); nothing between it and the
\* caller of run() catches: ensure_token_valid (89), search_artist (92) and
\* get_artist_details (119) call outside their try blocks, run() has none.
RefreshReturns(r) ==
    /\ raised' = r.raised
    /\ pc' = IF r.raised = "none" THEN "get" ELSE "raised"
    /\ UNCHANGED <<call, idx, artist_details>>

\* get_access_token: the response of the exchange arrives
GetAccessToken ==
    /\ pc = "post"
    /\ \E resp \in TokenResponses :
         LET r == AccessTokenResult(token, token_expiry, now, resp) IN
           /\ token' = r.token
           /\ token_expiry' = r.token_expiry
           /\ RefreshReturns(r)
    /\ refreshes' = refreshes + 1
    /\ UNCHANGED <<config, stats, delay, collected_artists, now, escalations, paces,
                   slept, outcome, clean>>

\* Variant: adapt_delay sleeps for the old delay and escalates afterwards.
AdaptDelaySleepsFirst(failed) ==
    IF failed
    THEN /\ delay' = Doubled(delay)
         /\ slept' = delay
         /\ escalations' = escalations + 1
    ELSE UNCHANGED <<delay, slept, escalations>>

\* adapt_delay, when the except clause ran
AdaptDelay(failed) ==
    IF failed
    THEN /\ delay' = Doubled(delay)
         /\ slept' = Doubled(delay)
         /\ escalations' = escalations + 1
    ELSE UNCHANGED <<delay, slept, escalations>>

\* Variant: respectful_delay is reached also when the search gave nothing.
SearchReturnsThenPace(out) ==
    IF out = "found"
    THEN /\ pc' = "ensure"
         /\ call' = "get_artist_details"
         /\ refreshes' = 0
         /\ UNCHANGED <<idx, artist_details>>
    ELSE /\ pc' = "pace"
         /\ UNCHANGED <<call, idx, refreshes, artist_details>>

\* run(), lines 169-175: `continue` when search_artist returned None
SearchReturns(out) ==
    IF out = "found"
    THEN /\ pc' = "ensure"
         /\ call' = "get_artist_details"
         /\ refreshes' = 0
         /\ UNCHANGED <<idx, artist_details>>
    ELSE NextEntity

\* search_artist, lines 97-116: the response of the search arrives
SearchArtist ==
    /\ pc = "get"
    /\ call = "search_artist"
    /\ \E out \in SearchOutcomes :
         /\ outcome' = out
         /\ clean' = (clean /\ out = "found")
         /\ stats' = SearchStats(stats, out)
         /\ AdaptDelay(SearchRaises(out))
         /\ SearchReturns(out)
    /\ UNCHANGED <<config, token, token_expiry, collected_artists, now, raised, paces>>

\* Variant: run() goes on to the quality check whatever the fetch returned.
DetailsReturnAlwaysQuality(out, body) ==
    /\ pc' = "quality"
    /\ artist_details' = body
    /\ UNCHANGED <<call, idx, refreshes>>

\* run(), lines 175-177: `continue` when get_artist_details returned nothing
DetailsReturn(out, body) ==
    IF out = "ok"
    THEN /\ pc' = "quality"
         /\ artist_details' = body
         /\ UNCHANGED <<call, idx, refreshes>>
    ELSE NextEntity

\* get_artist_details, lines 123-133: the response of the fetch arrives
GetArtistDetails ==
    /\ pc = "get"
    /\ call = "get_artist_details"
    /\ \E out \in DetailOutcomes, body \in DetailBodies :
         /\ outcome' = out
         /\ clean' = (clean /\ out = "ok" /\ AssessDataQuality(body) /\ body.nested)
         /\ stats' = DetailStats(stats, out)
         /\ AdaptDelay(DetailRaises(out))
         /\ DetailsReturn(out, body)
    /\ UNCHANGED <<config, token, token_expiry, collected_artists, now, raised, paces>>

\* run(), lines 179-191.  The record is built before it is appended:
\* artist_details.get("external_urls", {}).get("spotify") and
\* artist_details.get("followers", {}).get("total") raise AttributeError when
\* the key is there with a value that is no object.
QualityCheck ==
    /\ pc = "quality"
    /\ IF AssessDataQuality(artist_details)
       THEN IF artist_details.nested
            THEN /\ collected_artists' = Append(collected_artists, idx)
                 /\ stats' = [stats EXCEPT !.quality_passed = @ + 1]
                 /\ pc' = "pace"
                 /\ raised' = raised
            ELSE /\ pc' = "raised"
                 /\ raised' = "AttributeError"
                 /\ UNCHANGED <<collected_artists, stats>>
       ELSE /\ pc' = "pace"
            /\ raised' = raised
            /\ UNCHANGED <<collected_artists, stats>>
    /\ UNCHANGED <<config, token, token_expiry, delay, now, call, idx, artist_details,
                   refreshes, escalations, paces, slept, outcome, clean>>

\* respectful_delay, called at run() line 193
RespectfulDelay ==
    /\ pc = "pace"
    /\ \E jitter \in JitterChoices : slept' = (delay * jitter) \div 1000
    /\ paces' = paces + 1
    /\ LET r == RespectfulDecay(delay, config) IN
         /\ delay' = r.delay
         /\ raised' = r.raised
         /\ IF r.raised = "none"
            THEN NextEntity
            ELSE pc' = "raised" /\ UNCHANGED <<call, idx, refreshes, artist_details>>
    /\ UNCHANGED <<config, token, token_expiry, stats, collected_artists, now,
                   escalations, outcome, clean>>

\* run(), lines 195-198: save_data, generate_report, save_metadata
Finish ==
    /\ pc = "finish"
    /\ pc' = "done"
    /\ UNCHANGED <<config, token, token_expiry, stats, delay, collected_artists, now,
                   call, idx, artist_details, raised, refreshes, escalations, paces, slept,
                   outcome, clean>>

\* Time passes: request latency and time.sleep
Tick ==
    /\ pc \notin {"config_error", "done", "raised"}
    /\ now + ElapseStep <= MaxTime
    /\ now' = now + ElapseStep
    /\ UNCHANGED <<config, token, token_expiry, stats, delay, collected_artists, pc,
                   call, idx, artist_details, raised, refreshes, escalations, paces, slept,
                   outcome, clean>>

Next ==
    \/ RunStart
    \/ EnsureTokenValid
    \/ GetAccessToken
    \/ SearchArtist
    \/ GetArtistDetails
    \/ QualityCheck
    \/ RespectfulDelay
    \/ Finish
    \/ Tick

Spec == Init /\ [][Next]_vars

\* ------------------------------------------------------------------ claims
\* floor_delay: collection_settings.min_delay_seconds, 1.0 when not configured
FloorDelay ==
    IF config.min_delay_seconds = None THEN DefaultMinDelay ELSE config.min_delay_seconds

\* C1: in every reachable state of the agent, for every configured
\* min_delay_seconds, floor_delay <= current_delay <= ceiling_delay.
C1_DelayWithinFloorAndCeiling ==
    pc # "config_error" => (FloorDelay <= delay /\ delay <= CeilingDelay)

\* C2: at all times, for every sequence of search and detail outcomes,
\* total_requests = successful_requests + failed_requests.
C2_TotalIsSuccessfulPlusFailed ==
    stats.total_requests = stats.successful_requests + stats.failed_requests

\* A dependent request (search or detail) is sent: ensure_token_valid has
\* returned and the GET goes out with the token of that moment.
RequestSent == pc \in {"ensure", "post"} /\ pc' = "get"

\* C3 (as stated): every dependent request is sent with a token that is valid
\* when ensure_token_valid returns (a token exists and now <= expires_at - 60),
\* after zero or exactly one refresh, for every expires_in the exchange reports.
C3_RequestSentWithValidToken ==
    [][RequestSent =>
         /\ token' # None
         /\ now' <= token_expiry' - TokenMargin
         /\ refreshes' \in {0, 1}]_vars

\* C3 (amended): every dependent request is sent with an existing token after
\* zero or exactly one refresh; a reused token (zero refreshes) satisfies
\* now <= expires_at - 60, and a refreshed one carries expires_at = now +
\* expires_in, whatever expires_in the exchange reported.
C3_RequestSentAfterCheckOrOneRefresh ==
    [][RequestSent =>
         /\ token' # None
         /\ refreshes' \in {0, 1}
         /\ refreshes' = 0 => now' <= token_expiry' - TokenMargin
         /\ refreshes' = 1 => (token_expiry' - now') \in ExpiresInChoices]_vars

\* C3 witness: the detail request of an entity goes out with the token its
\* search obtained, reused inside its validity window.
C3_Witness ==
    /\ pc = "get"
    /\ call = "get_artist_details"
    /\ refreshes = 0
    /\ token # None
    /\ now <= token_expiry - TokenMargin

\* C4: ensure_token_valid performs a credential exchange exactly when no token
\* exists or now > expires_at - 60; otherwise it makes no network call and
\* leaves the token unchanged; a call that refreshes performs exactly one
\* exchange.
C4_RefreshExactlyWhenStale ==
    [][/\ (pc = "ensure" /\ pc' # "ensure") =>
             /\ (pc' = "post") <=> (token = None \/ now > token_expiry - 60)
             /\ token' = token
             /\ token_expiry' = token_expiry
             /\ refreshes = 0 /\ refreshes' = 0
             /\ pc' \in {"post", "get"}
       /\ (pc = "post" /\ pc' # "post") =>
             /\ refreshes' = 1
             /\ pc' \in {"get", "raised"}]_vars

\* C4 witness: a token exists, the margin has been crossed, and the call is
\* performing its one exchange.
C4_Witness ==
    /\ pc = "post"
    /\ token # None
    /\ token_expiry # None
    /\ now > token_expiry - 60
    /\ refreshes = 0

\* C5: when a token refresh fails for any reason, the stored Token (value and
\* expires_at) is exactly what it was before the attempt.
C5_FailedRefreshKeepsToken ==
    [][(pc = "post" /\ pc' = "raised") =>
         (token' = token /\ token_expiry' = token_expiry)]_vars

\* C6: starting from current_delay = floor_delay, after N >= 0 consecutive
\* adapt_delay calls with no decay in between, current_delay equals
\* min(floor_delay * 2^N, ceiling_delay), and the values never decrease.
C6_EscalationDoublesFromFloor ==
    [][escalations' = escalations + 1 =>
         /\ delay' >= delay
         /\ paces = 0 => delay' = Min(FloorDelay * 2^(escalations'), CeilingDelay)]_vars

\* C7: each respectful_delay call above the floor yields
\* max(current_delay * 0.9, floor_delay), so that repeated calls return
\* current_delay to floor_delay; at the floor the delay is kept.
C7_DecayTowardsFloor ==
    [][paces' = paces + 1 =>
         delay' = IF delay > FloorDelay
                  THEN Max((delay * 9) \div 10, FloorDelay)
                  ELSE delay]_vars

\* The processing of the current entity is over: run() takes the next
\* artist_name or leaves the loop.
EntityEnds ==
    /\ pc \in {"get", "pace"}
    /\ (pc' = "ensure" /\ idx' = idx + 1) \/ pc' = "finish"

\* C8 (as stated): on completion of every entity's processing, whatever its
\* outcome, run() calls respectful_delay before advancing to the next entity.
C8_EveryEntityEndsWithPace ==
    [][EntityEnds => paces' = paces + 1]_vars

\* C8 (amended): run() calls respectful_delay before advancing exactly for the
\* entities that reached the quality check (collected or rejected); after a
\* search failure, an empty search result or a failed or empty detail fetch it
\* advances without calling it, so no decay is applied in the iteration in
\* which a failure escalated the delay.
C8_PaceOnlyAfterQualityCheck ==
    [][/\ EntityEnds => (paces' = paces + 1 <=> pc = "pace")
       /\ (pc' = "pace" /\ pc # "pace") => pc = "quality"
       /\ (pc = "quality" /\ pc' # "quality") => pc' \in {"pace", "raised"}
       /\ escalations' # escalations => (EntityEnds /\ paces' = paces)]_vars

\* C8 witness: the first entity failed and escalated the delay, and run() is at
\* the second entity without any respectful_delay call.
C8_Witness ==
    /\ idx = 2
    /\ pc = "ensure"
    /\ escalations = 1
    /\ paces = 0

\* A failure is recorded: failed_requests is incremented.
FailureRecorded == stats'.failed_requests # stats.failed_requests

\* C9 (as stated): every event that increments failed_requests also invokes
\* adapt_delay exactly once: current_delay becomes min(2 * current_delay, ceiling).
C9_EveryFailureEscalates ==
    [][FailureRecorded =>
         /\ escalations' = escalations + 1
         /\ delay' = Min(2 * delay, CeilingDelay)]_vars

\* C9 (amended): every failure handled by the except clause (HTTP error
\* status, network error, undecodable body) increments failed_requests once
\* and invokes adapt_delay exactly once; an empty search result increments
\* failed_requests without invoking adapt_delay and leaves current_delay as it is.
C9_FailureEscalatesUnlessEmptyResult ==
    [][FailureRecorded =>
         /\ stats'.failed_requests = stats.failed_requests + 1
         /\ IF outcome' = "no_items"
            THEN escalations' = escalations /\ delay' = delay
            ELSE /\ escalations' = escalations + 1
                 /\ delay' = Min(2 * delay, CeilingDelay)]_vars

\* C9 witness: an empty search result was recorded as a failure and the delay
\* was not escalated.
C9_Witness ==
    /\ outcome = "no_items"
    /\ stats.failed_requests = 1
    /\ escalations = 0
    /\ delay = FloorDelay

\* The token exchange of the current call failed.
RefreshFailed == pc = "post" /\ pc' \notin {"post", "get"}

\* C10 (as stated): if a token refresh fails while an entity is processed,
\* the rest of that entity is abandoned but run() continues with the next
\* entity (or, after the last one, with its terminal step).
C10_FailedRefreshIsolated ==
    [][RefreshFailed => ((pc' = "ensure" /\ idx' = idx + 1) \/ pc' = "finish")]_vars

\* C10 (amended): if a token refresh fails while an entity is processed, the
\* exception leaves run(): that entity and all later ones are abandoned and
\* the terminal step is never reached.
C10_FailedRefreshAbortsRun ==
    [][/\ RefreshFailed => (pc' = "raised" /\ raised' # "none" /\ idx' = idx)
       /\ pc # "raised"]_vars

\* C10 witness: the exchange failed during the detail fetch of an entity that
\* is not the last; run() has ended with the exception.
C10_Witness ==
    /\ pc = "raised"
    /\ raised = "HTTPError"
    /\ call = "get_artist_details"
    /\ idx < config.artists_to_search

\* No request was counted and nothing was collected.
NothingCounted ==
    /\ stats.total_requests = 0
    /\ stats.successful_requests = 0
    /\ stats.failed_requests = 0
    /\ stats.quality_passed = 0
    /\ collected_artists = <<>>

\* C11 (as stated): whenever a credential-exchange failure terminates run(),
\* no search or detail request has been issued, all counters are zero and the
\* collected list is empty.
C11_ExchangeFailureBeforeAnyEntity ==
    (pc = "raised" /\ raised \in {"ConnectionError", "HTTPError"}) =>
        (NothingCounted /\ outcome = "none")

\* C11 (amended): a credential-exchange failure terminates run() at the
\* refresh where it happens and leaves the counters and the collected list as
\* they are; only when it is the first exchange (no token was obtained before)
\* has no request been issued, are all counters zero and is the list empty.
C11_ExchangeFailureKeepsCounters ==
    [][RefreshFailed =>
         /\ pc' = "raised"
         /\ stats' = stats
         /\ collected_artists' = collected_artists
         /\ token' = None =>
               (NothingCounted' /\ outcome' = "none" /\ idx' = 1
                /\ call' = "search_artist")]_vars

\* C11 witness: the first exchange failed; run() has ended at the first
\* entity's search with nothing counted.
C11_Witness ==
    /\ pc = "raised"
    /\ raised = "ConnectionError"
    /\ token = None
    /\ idx = 1
    /\ stats.total_requests = 0
    /\ config.artists_to_search > 1

\* C12: lookup failures never escape run(): with a working token exchange
\* (and records that can be built), no exception leaves run(), whatever the
\* pattern of failed or empty lookups.
C12_LookupFailuresNeverEscape ==
    [][(pc' = "raised" /\ pc # "raised") => pc \in {"post", "quality"}]_vars

\* C13: if the client id or the client secret is missing in both the
\* configuration and the environment, constructing the agent raises, run()
\* never starts and no HTTP request (exchange, search or detail) is issued.
C13_MissingCredentialRaisesAtConstruction ==
    (~config.client_id \/ ~config.client_secret) =>
        /\ pc = "config_error"
        /\ raised = "ValueError"
        /\ idx = 0
        /\ call = "none"
        /\ token = None
        /\ refreshes = 0
        /\ outcome = "none"
        /\ NothingCounted

\* C13 witness: the client id is there, the client secret is missing
\* everywhere, and the constructor has raised.
C13_Witness ==
    /\ config.client_id
    /\ ~config.client_secret
    /\ pc = "config_error"
    /\ raised = "ValueError"

ScenarioBSoFar ==
    /\ config.artists_to_search = 3
    /\ stats.failed_requests = 1
    /\ escalations = 1
    /\ stats.total_requests = stats.successful_requests
    /\ stats.quality_passed = idx - 1

\* C15: three targets, the first search fails with a network error, the other
\* two succeed: current_delay is strictly greater than floor_delay right after
\* the failure and is then non-increasing across the successful entities, and
\* the run goes on to its end with failed_requests = 1.
C15_ScenarioB ==
    [][/\ (pc = "get" /\ call = "search_artist" /\ idx = 1
           /\ config.artists_to_search = 3 /\ outcome' = "network_error") =>
             delay' > FloorDelay
       /\ (ScenarioBSoFar /\ pc = "pace") =>
             (pc' # "raised" /\ delay' <= delay)
       /\ (ScenarioBSoFar /\ pc' = "done") => stats'.failed_requests = 1]_vars

\* C16: the gate admits a fetched record exactly when it has a non-empty name
\* and a non-empty genre set, whatever its other fields: such a record is
\* always appended to the collected list, and a record with an empty genre
\* list (or an empty name) never is.
C16_GateAdmitsExactly ==
    [][(pc = "quality" /\ pc' # "quality") =>
         ((artist_details.name /\ artist_details.genres > 0) <=>
            /\ collected_artists' = Append(collected_artists, idx)
            /\ stats'.quality_passed = stats.quality_passed + 1)]_vars

\* C17: each entity moves through SEARCHING, DETAILING, QUALITY_CHECK in that
\* order: the detail fetch is started only after that entity's search found
\* an artist, the quality check only after that entity's detail fetch
\* succeeded, a record is collected only by the quality check; an entity whose
\* search or detail step failed ends there, is not collected and is not
\* searched again.
C17_EntityStatesInOrder ==
    [][/\ (call' = "get_artist_details" /\ call # "get_artist_details") =>
             (pc = "get" /\ call = "search_artist" /\ outcome' = "found"
              /\ pc' = "ensure" /\ idx' = idx)
       /\ (pc' = "quality" /\ pc # "quality") =>
             (pc = "get" /\ call = "get_artist_details" /\ outcome' = "ok"
              /\ idx' = idx)
       /\ (pc' = "pace" /\ pc # "pace") => (pc = "quality" /\ idx' = idx)
       /\ collected_artists' # collected_artists =>
             (pc = "quality" /\ collected_artists' = Append(collected_artists, idx))
       /\ (pc = "get" /\ pc' # "get" /\ outcome' \notin {"found", "ok"}) =>
             (EntityEnds /\ collected_artists' = collected_artists)
       /\ idx' \in {idx, idx + 1}
       /\ (call' = "search_artist" /\ call # "search_artist") => idx' = idx + 1
       /\ idx' # idx => (idx' = idx + 1 /\ pc' = "ensure" /\ call' = "search_artist")]_vars

\* C17 witness: the first entity failed and was skipped, the second went
\* through every state and was collected.
C17_Witness ==
    /\ pc = "pace"
    /\ idx = 2
    /\ collected_artists = <<2>>
    /\ stats.failed_requests = 1

\* C18: adapt_delay first escalates current_delay and then sleeps for exactly
\* the escalated value min(2 * previous_delay, ceiling_delay), without jitter;
\* the step that handles the failure issues no request.
C18_PenaltyPauseIsEscalatedDelay ==
    [][escalations' # escalations =>
         /\ escalations' = escalations + 1
         /\ pc = "get"
         /\ delay' = Min(2 * delay, CeilingDelay)
         /\ slept' = Min(2 * delay, CeilingDelay)
         /\ pc' \in {"ensure", "finish"}]_vars

\* C18 witness: a failed request at delay 1.0 was followed by a pause of 2.0.
C18_Witness ==
    /\ outcome = "http_error"
    /\ escalations = 1
    /\ delay = 2000
    /\ slept = 2000
    /\ pc = "ensure"

Processed == IF pc \in {"finish", "done"} \/ idx = 0 THEN idx ELSE idx - 1

\* run() is between two entities, before the first or after the last.
AtBoundary ==
    \/ pc \in {"constructed", "finish", "done"}
    \/ (pc = "ensure" /\ call = "search_artist")

\* C20: after k entities have been processed total_requests <= 2k,
\* failed_requests <= k and current_delay <= min(floor_delay * 2^k,
\* ceiling_delay).
C20_PerEntityBounds ==
    AtBoundary =>
        /\ stats.total_requests <= 2 * Processed
        /\ stats.failed_requests <= Processed
        /\ delay <= Min(FloorDelay * 2^Processed, CeilingDelay)

====
